---- MODULE Spec2Model ----
\* Round coordinator (src/src/services/GameService.ts, on-chain variant) together with
\* the HotColdGame ledger contract (src/onchain/lib/solady/src/tokens/ERC20.sol, second
\* HotColdGame definition).  Every await of the coordinator is a suspension point: the
\* code between two awaits is one action, and several submitGuess calls may be suspended
\* at the same time because the service holds no lock.
EXTENDS Integers, Sequences, FiniteSets, TLC

\* ---------------------------------------------------------------------------------
\* Bounds of the model
\* ---------------------------------------------------------------------------------
MaxSubmits == 2        \* submitGuess invocations started in one behaviour
MaxRound == 3          \* highest ledger round id that may be opened

\* ---------------------------------------------------------------------------------
\* Configuration (src/src/config/constants.ts); the env-configurable ones carry the
\* values of the deployment that is modelled.
\* ---------------------------------------------------------------------------------
TARGET_DIGITS == 4
MIN_TARGET_DIGITS == 4
MAX_TARGET_DIGITS == 18
BASE_BUY_IN_WEI == 1003
NEAR_MATCH_THRESHOLD == 3
PRICE_INCREASE_BPS == 1500
MAX_PRICE_STEPS == 1

Players == {"alice", "bob"}       \* account addresses, in lower case
\* the `player` string each account's client sends: bob's wallet reports the address
\* in its mixed-case (checksum) spelling
PlayerString(a) == IF a = "bob" THEN "Bob" ELSE a
Calls == Players                 \* POST /game/guess: one request in flight per player
\* the coordinator's account: the contract's tee address at deployment
TEE == "tee"

Boot == "boot"                   \* the constructor's background ensureRoundIsReady
Procs == Calls \cup {Boot}

\* crypto.randomBytes is drawn from this pool of digit strings
SecretPool == {<<1, 2, 3, 4>>, <<1, 2, 4, 3>>}
\* characters of a guess other than the digits 0..9
Space == 32
Letter == 120
\* guesses a player may type: a string is the sequence of its characters.  One has a
\* trailing blank and, once trimmed, the wrong length; one is not numeric.
GuessPool == {<<1, 2, 3, 4>>, <<1, 2, 3, 5>>, <<1, 2, 3, Space>>, <<1, 2, Letter, 4>>}

\* INITIAL_BUY_IN_WEI values the deploy script may be given
InitialBuyInPool == {BASE_BUY_IN_WEI, 1000000}

UUID == -1                       \* crypto.randomUUID(): a round id that is no ledger id
NoRoundId == 0                   \* authorization.roundId absent (falsy)

VARIABLES
    state,               \* GameService.state : GameRoundState
    processedPayments,   \* GameService.processedPayments : set of <<payer, nonce>>
    currentRoundId,      \* HotColdGame.currentRoundId
    rounds,              \* HotColdGame.rounds : round id -> Round
    nonces,              \* ERC20.nonces : EIP-2612 permit nonce per owner
    tee,                 \* HotColdGame.tee : the account behind onlyTee
    balance,             \* paymentToken.balanceOf(the contract)
    proc,                \* position and locals of every suspended async call
    submits,             \* number of submitGuess invocations started
    winsByRound,         \* history: winning guesses recorded per ledger round
    escalationsByRound,  \* history: buy-in escalations applied per ledger round
    acceptedByRound,     \* history: guess records appended per ledger round
    lastTx,              \* history: the last transaction sent to the ledger directly
    adminTxs,            \* history: administrative transactions mined
    transfers            \* history: WinnerPaid events of the ledger

vars == <<state, processedPayments, currentRoundId, rounds, nonces, tee, balance, proc,
          submits,
          winsByRound, escalationsByRound, acceptedByRound, lastTx, adminTxs,
          transfers>>

ledgerVars == <<currentRoundId, rounds, nonces, tee, balance, transfers>>
histVars == <<winsByRound, escalationsByRound, acceptedByRound, lastTx, adminTxs>>

RoundIds == 0..MaxRound

\* ---------------------------------------------------------------------------------
\* Pure helpers of GameService.ts
\* ---------------------------------------------------------------------------------
Min(a, b) == IF a < b THEN a ELSE b
Max(a, b) == IF a > b THEN a ELSE b

\* String.prototype.toLowerCase on an address
toLowerCase(a) == IF a = "Bob" THEN "bob" ELSE a

\* String.prototype.trim
RECURSIVE trimStart(_)
trimStart(str) == IF str # <<>> /\ Head(str) = Space THEN trimStart(Tail(str)) ELSE str

RECURSIVE trimEnd(_)
trimEnd(str) ==
    IF str # <<>> /\ str[Len(str)] = Space THEN trimEnd(SubSeq(str, 1, Len(str) - 1))
    ELSE str

trim(str) == trimEnd(trimStart(str))

\* /^\d+$/.test(str)
isNumeric(str) == str # <<>> /\ \A i \in 1..Len(str) : str[i] \in 0..9

clampDigits(value) == Min(Max(value, MIN_TARGET_DIGITS), MAX_TARGET_DIGITS)

\* SHA-256 over roundId ":" target, hex encoded: collision free, so the digest is
\* modelled by the pair that was hashed.
sealTarget(roundId, target) == <<roundId, target>>

\* "0x" + digest; throws unless the digest is 64 hex characters (every digest is)
digestToBytes32(digest) == [hex |-> digest]

\* bytes32(0)
ZeroCommitment == [hex |-> <<0, <<>>>>]
\* a commitment that was not sealed by this coordinator process
ForeignCommitment == [hex |-> <<-2, <<>>>>]

RECURSIVE matchesUpTo(_, _, _)
matchesUpTo(target, guess, i) ==
    IF i = 0 THEN 0
    ELSE matchesUpTo(target, guess, i - 1)
         + (IF i <= Len(guess) /\ target[i] = guess[i] THEN 1 ELSE 0)

\* computeMatches counting the digits of the target found anywhere in the guess
computeMatches_anyPosition(target, guess) ==
    Cardinality({i \in 1..Len(target) : \E j \in 1..Len(guess) : guess[j] = target[i]})

\* computeMatches (lines 202-210)
computeMatches(target, guess) == matchesUpTo(target, guess, Len(target))

buildCommitment(roundId, digest) == [digest |-> digest]

createCommitmentFromOnchain(roundId, commitment) == [digest |-> commitment.hex]

getCommitmentDigest(round) == round.targetCommitment.digest

Has(o, f) == f \in DOMAIN o

\* createRound(overrides): `target` and `uuid` are the random draws of the call
createRound(o, target, uuid) ==
    LET roundId == IF Has(o, "roundId") THEN o.roundId ELSE uuid
        buyInWei == IF Has(o, "buyInWei") THEN o.buyInWei ELSE BASE_BUY_IN_WEI
        targetSecret == IF Has(o, "targetSecret") THEN o.targetSecret ELSE target
        targetDigest == IF Has(o, "targetDigest") THEN o.targetDigest
                        ELSE sealTarget(roundId, targetSecret)
        commitment == IF Has(o, "targetCommitment") THEN o.targetCommitment
                      ELSE buildCommitment(roundId, targetDigest)
    IN [roundId |-> roundId,
        digits |-> clampDigits(TARGET_DIGITS),
        sealedHash |-> IF Has(o, "sealedHash") THEN o.sealedHash ELSE targetDigest,
        targetSecret |-> targetSecret,
        buyInWei |-> buyInWei,
        potWei |-> IF Has(o, "potWei") THEN o.potWei ELSE 0,
        guesses |-> IF Has(o, "guesses") THEN o.guesses ELSE <<>>,
        priceSteps |-> IF Has(o, "priceSteps") THEN o.priceSteps ELSE 0,
        nearMatchThreshold |-> NEAR_MATCH_THRESHOLD,
        priceIncreaseBps |-> PRICE_INCREASE_BPS,
        targetDigest |-> targetDigest,
        targetCommitment |-> commitment,
        winner |-> IF Has(o, "winner") THEN o.winner ELSE <<>>]

\* ---------------------------------------------------------------------------------
\* Ledger: HotColdGame
\* ---------------------------------------------------------------------------------
EmptyRound == [buyIn |-> 0, pot |-> 0, guesses |-> 0, winner |-> "0x0",
               active |-> FALSE, targetCommitment |-> ZeroCommitment]

\* constructor of the contract under src/: round 1 is opened by the deployer with the
\* buy-in and the commitment given to the deploy script
Constructor(initialBuyInWei) ==
    /\ currentRoundId = 1
    /\ rounds = [r \in RoundIds |->
                   IF r = 1 THEN [buyIn |-> initialBuyInWei, pot |-> 0, guesses |-> 0,
                                  winner |-> "0x0", active |-> TRUE,
                                  targetCommitment |-> ForeignCommitment]
                   ELSE EmptyRound]

\* constructor(teeAddress, paymentTokenAddress) of the README and the tests: no round
ConstructorNoRound ==
    /\ currentRoundId = 0
    /\ rounds = [r \in RoundIds |-> EmptyRound]

\* payForGuess without the require on the permit value
payForGuessOk_anyValue(roundId, payer, value, nonce) ==
    /\ roundId = currentRoundId
    /\ rounds[roundId].active
    /\ nonce = nonces[payer]

\* payForGuess: the permit is valid iff it was signed over the owner's current nonce
payForGuessOk(roundId, payer, value, nonce) ==
    /\ roundId = currentRoundId
    /\ rounds[roundId].active
    /\ value = rounds[roundId].buyIn
    /\ nonce = nonces[payer]

\* payForGuess adding to the pot without counting the guess
payForGuessRounds_keepsCount(roundId) ==
    [rounds EXCEPT ![roundId].pot = @ + rounds[roundId].buyIn]

payForGuessRounds(roundId) ==
    [rounds EXCEPT ![roundId].pot = @ + rounds[roundId].buyIn,
                   ![roundId].guesses = @ + 1]

\* the GuessPaid event of a successful payForGuess
GuessPaid(roundId, payer) ==
    [roundId |-> roundId, player |-> payer, amount |-> rounds[roundId].buyIn,
     potAfter |-> rounds[roundId].pot + rounds[roundId].buyIn,
     guessCount |-> rounds[roundId].guesses + 1]

settleWinnerOk(winner) == rounds[currentRoundId].active /\ winner # "0x0"

\* settleWinner leaving the pot in the round
settleWinnerRounds_keepsPot(rs, winner) ==
    [rs EXCEPT ![currentRoundId].winner = winner, ![currentRoundId].active = FALSE]

\* settleWinner leaving the round active
settleWinnerRounds_keepsActive(rs, winner) ==
    [rs EXCEPT ![currentRoundId].pot = 0,
               ![currentRoundId].winner = winner]

settleWinnerRounds(rs, winner) ==
    [rs EXCEPT ![currentRoundId].pot = 0,
               ![currentRoundId].active = FALSE,
               ![currentRoundId].winner = winner]

\* startNextRound without the require on the current round
startNextRoundOk_whileActive(rs, buyInWei, targetCommitment) ==
    /\ buyInWei > 0
    /\ targetCommitment # ZeroCommitment

startNextRoundOk(rs, buyInWei, targetCommitment) ==
    /\ buyInWei > 0
    /\ targetCommitment # ZeroCommitment
    /\ ~rs[currentRoundId].active

\* startNextRound storing the new round under the id of the round before it
startNextRoundRounds_reopensCurrent(rs, buyInWei, targetCommitment) ==
    [rs EXCEPT ![currentRoundId] =
        [buyIn |-> buyInWei, pot |-> 0, guesses |-> 0, winner |-> "0x0",
         active |-> TRUE, targetCommitment |-> targetCommitment]]

startNextRoundRounds(rs, buyInWei, targetCommitment) ==
    [rs EXCEPT ![currentRoundId + 1] =
        [buyIn |-> buyInWei, pot |-> 0, guesses |-> 0, winner |-> "0x0",
         active |-> TRUE, targetCommitment |-> targetCommitment]]

\* settleAndStartNextRound: settleWinner followed by startNextRound in one transaction
settleAndStartNextRoundOk(winner, buyInWei, targetCommitment) ==
    /\ settleWinnerOk(winner)
    /\ startNextRoundOk(settleWinnerRounds(rounds, winner), buyInWei, targetCommitment)

settleAndStartNextRoundRounds(winner, buyInWei, targetCommitment) ==
    startNextRoundRounds(settleWinnerRounds(rounds, winner), buyInWei, targetCommitment)

\* ---------------------------------------------------------------------------------
\* Async calls
\* ---------------------------------------------------------------------------------
NoAuth == [payer |-> "", nonce |-> 0, value |-> 0, roundId |-> NoRoundId,
           complete |-> FALSE]
NoPayment == [roundId |-> 0, amount |-> 0, potAfter |-> 0, guessCount |-> 0, buyInWei |-> 0]

IdleProc == [pc |-> "idle", guess |-> <<>>, player |-> "", auth |-> NoAuth,
             chainRoundId |-> 0, nextState |-> <<>>, payRoundId |-> 0,
             payment |-> NoPayment, txOk |-> FALSE, result |-> "none",
             payout |-> 0, transferred |-> 0,
             replay |-> FALSE, settledAt |-> NoRoundId]

\* no transaction has been sent to the ledger directly
NoTx == [fn |-> "", sender |-> "", args |-> <<>>, ok |-> FALSE, events |-> <<>>]

Init ==
    /\ \E target \in SecretPool : state = createRound(<<>>, target, UUID)
    /\ processedPayments = {}
    /\ \/ \E initialBuyInWei \in InitialBuyInPool : Constructor(initialBuyInWei)
       \/ ConstructorNoRound
    /\ nonces = [p \in Players |-> 0]
    /\ tee = TEE
    /\ balance = 0
    /\ proc = [p \in Procs |-> IF p = Boot THEN [IdleProc EXCEPT !.pc = "ens_currentRoundId"]
                                ELSE IdleProc]
    /\ submits = 0
    /\ winsByRound = [r \in RoundIds |-> 0]
    /\ escalationsByRound = [r \in RoundIds |-> 0]
    /\ acceptedByRound = [r \in RoundIds |-> 0]
    /\ lastTx = NoTx
    /\ adminTxs = 0
    /\ transfers = {}

\* a finished call: its outcome is what the caller of submitGuess gets (for a failed
\* settlement, with the round the winner was recorded in)
Finish(pr, res) ==
    [IdleProc EXCEPT !.result = res,
                     !.payRoundId = IF res = "settle_failed" THEN pr.payRoundId ELSE 0]

\* ensureRoundIsReady has returned.  The boot run ends; a submitGuess call goes straight
\* on into executeGuessPayment up to its first await (the checks of lines 585-596).
\* pp is the processed-payment set at that moment.
EnsureReturn(p, pp) ==
    LET pr == proc[p] IN
    IF p = Boot THEN [IdleProc EXCEPT !.pc = "done"]
    ELSE IF toLowerCase(pr.auth.payer) # toLowerCase(pr.player)
         THEN Finish(pr, "signer_mismatch")
    ELSE IF ~pr.auth.complete THEN Finish(pr, "missing_fields")
    ELSE IF <<toLowerCase(pr.auth.payer), pr.auth.nonce>> \in pp THEN Finish(pr, "replay")
    ELSE [pr EXCEPT !.pc = "pay_currentRoundId", !.chainRoundId = 0, !.nextState = <<>>,
                    !.txOk = FALSE]

\* the authorizations a request of account c may carry: the one the player signed
\* (for the round shown by the coordinator, over the buy-in shown by the coordinator or
\* read from the ledger, with the token's current permit nonce or the previous one, a
\* re-used authorization), one signed by the other account, and one without its
\* nonce, deadline or value
Authorizations(c) ==
    {[payer |-> c, nonce |-> nonce, value |-> value, roundId |-> state.roundId,
      complete |-> TRUE] :
        nonce \in {n \in 0..nonces[c] : n >= nonces[c] - 1},
        value \in {state.buyInWei, rounds[currentRoundId].buyIn}}
    \cup {[payer |-> payer, nonce |-> nonces[payer], value |-> state.buyInWei,
            roundId |-> state.roundId, complete |-> TRUE] : payer \in Players \ {c}}
    \cup {[payer |-> c, nonce |-> nonces[c], value |-> state.buyInWei,
            roundId |-> state.roundId, complete |-> FALSE]}

\* submitGuess, lines 469-483: the guess is trimmed and tested, and for a numeric guess
\* reconciliation is started
SubmitGuess(c) ==
    /\ proc[c].pc = "idle"
    /\ proc[Boot].pc = "done"
    /\ submits < MaxSubmits
    /\ \E guess \in GuessPool :
         LET normalizedGuess == trim(guess) IN
         IF ~isNumeric(normalizedGuess)
         THEN proc' = [proc EXCEPT ![c] = Finish(proc[c], "not_numeric")]
         ELSE \E player \in {PlayerString(c)}, authorization \in Authorizations(c) :
                proc' = [proc EXCEPT ![c] =
                           [IdleProc EXCEPT
                              !.pc = "ens_currentRoundId",
                              !.guess = normalizedGuess,
                              !.player = player,
                              !.auth = authorization,
                              !.replay = /\ authorization.payer = c
                                         /\ authorization.complete
                                         /\ <<c, authorization.nonce>> \in processedPayments,
                              !.settledAt = IF state.winner # <<>> THEN state.roundId
                                            ELSE NoRoundId]]
    /\ submits' = submits + 1
    /\ UNCHANGED <<state, processedPayments, ledgerVars, histVars>>

\* ensureRoundIsReady, lines 367-377: the currentRoundId read returns (or fails and the
\* catch of line 407 swallows the error)
EnsureReadCurrentRoundId(p) ==
    /\ proc[p].pc = "ens_currentRoundId"
    /\ \/ proc' = [proc EXCEPT ![p] = EnsureReturn(p, processedPayments)]
       \/ /\ currentRoundId = 0
          /\ \E target \in SecretPool :
                proc' = [proc EXCEPT ![p].pc = "ens_start_tx",
                                     ![p].nextState =
                                        createRound([roundId |-> 1], target, UUID)]
       \/ /\ currentRoundId # 0
          /\ proc' = [proc EXCEPT ![p].pc = "ens_rounds",
                                  ![p].chainRoundId = currentRoundId]
    /\ UNCHANGED <<state, processedPayments, ledgerVars, histVars, submits>>

\* the overrides both resyncs pass to createRound (lines 393-404 and 561-573)
OnchainOverrides(roundId, onchainRound, restoredSecret) ==
    LET targetCommitment == createCommitmentFromOnchain(roundId, onchainRound.targetCommitment)
        base == [roundId |-> roundId,
                 buyInWei |-> onchainRound.buyIn,
                 potWei |-> onchainRound.pot,
                 guesses |-> <<>>,
                 priceSteps |-> 0,
                 targetDigest |-> targetCommitment.digest,
                 sealedHash |-> targetCommitment.digest,
                 targetCommitment |-> targetCommitment]
    IN IF sealTarget(roundId, restoredSecret) = targetCommitment.digest
       THEN base @@ [targetSecret |-> restoredSecret]
       ELSE base

\* the states a resync may produce: a fresh random target is drawn by createRound and
\* used when the kept secret does not reproduce the ledger commitment
ResyncStates(roundId, onchainRound) ==
    LET o == OnchainOverrides(roundId, onchainRound, state.targetSecret)
    IN IF Has(o, "targetSecret") THEN {createRound(o, state.targetSecret, UUID)}
       ELSE {createRound(o, target, UUID) : target \in SecretPool}

\* ensureRoundIsReady, lines 379-405: the rounds(chainRoundId) read returns
EnsureReadRound(p) ==
    /\ proc[p].pc = "ens_rounds"
    /\ LET chainRoundId == proc[p].chainRoundId
           onchainRound == rounds[chainRoundId]
       IN IF ~onchainRound.active
          THEN /\ chainRoundId < MaxRound
               /\ \E target \in SecretPool :
                     proc' = [proc EXCEPT ![p].pc = "ens_start_tx",
                                          ![p].nextState =
                                             createRound([roundId |-> chainRoundId + 1],
                                                         target, UUID)]
               /\ UNCHANGED state
          ELSE /\ state' \in ResyncStates(chainRoundId, onchainRound)
               /\ proc' = [proc EXCEPT ![p].pc = "ens_clear"]
    /\ UNCHANGED <<processedPayments, ledgerVars, histVars, submits>>

\* ensureRoundIsReady, lines 405-406: after the awaited commitTargetDigest
EnsureClear(p) ==
    /\ proc[p].pc = "ens_clear"
    /\ processedPayments' = {}
    /\ proc' = [proc EXCEPT ![p] = EnsureReturn(p, {})]
    /\ UNCHANGED <<state, ledgerVars, histVars, submits>>

\* startRoundOnChain, lines 422-430: the startNextRound transaction is mined
StartRoundTx(p) ==
    /\ proc[p].pc = "ens_start_tx"
    /\ LET round == proc[p].nextState
           commitment == digestToBytes32(getCommitmentDigest(round))
       IN IF startNextRoundOk(rounds, round.buyInWei, commitment)
          THEN /\ currentRoundId < MaxRound
               /\ rounds' = startNextRoundRounds(rounds, round.buyInWei, commitment)
               /\ currentRoundId' = currentRoundId + 1
               /\ proc' = [proc EXCEPT ![p].pc = "ens_start_receipt", ![p].txOk = TRUE]
          ELSE /\ proc' = [proc EXCEPT ![p].pc = "ens_start_receipt", ![p].txOk = FALSE]
               /\ UNCHANGED <<rounds, currentRoundId>>
    /\ UNCHANGED <<state, processedPayments, nonces, tee, balance, transfers, histVars,
                   submits>>

\* startRoundOnChain installing the round whatever the receipt's status
StartRoundReceipt_installsOnFailure(p) ==
    /\ proc[p].pc = "ens_start_receipt"
    /\ state' = proc[p].nextState
    /\ processedPayments' = {}
    /\ proc' = [proc EXCEPT ![p] = EnsureReturn(p, {})]
    /\ UNCHANGED <<ledgerVars, histVars, submits>>

\* startRoundOnChain, lines 432-439: the receipt arrives
StartRoundReceipt(p) ==
    /\ proc[p].pc = "ens_start_receipt"
    /\ IF proc[p].txOk
       THEN /\ state' = proc[p].nextState
            /\ processedPayments' = {}
            /\ proc' = [proc EXCEPT ![p] = EnsureReturn(p, {})]
       ELSE /\ proc' = [proc EXCEPT ![p] = EnsureReturn(p, processedPayments)]
            /\ UNCHANGED <<state, processedPayments>>
    /\ UNCHANGED <<ledgerVars, histVars, submits>>

\* executeGuessPayment, lines 599-608: the currentRoundId read returns and the payment
\* transaction is sent for authorization.roundId, or for the current round without one
PayReadCurrentRoundId(c) ==
    /\ proc[c].pc = "pay_currentRoundId"
    /\ LET a == proc[c].auth IN
       proc' = [proc EXCEPT ![c] =
                  IF a.roundId = UUID THEN Finish(proc[c], "bad_round_id")
                  ELSE [proc[c] EXCEPT !.pc = "pay_tx",
                                       !.payRoundId = IF a.roundId # NoRoundId THEN a.roundId
                                                      ELSE currentRoundId]]
    /\ UNCHANGED <<state, processedPayments, ledgerVars, histVars, submits>>

\* the logs of a mined payForGuess emitted at the game's address (line 616)
relevantLogs(roundId, payer) ==
    <<[eventName |-> "GuessPaid", args |-> GuessPaid(roundId, payer)]>>

\* the receipt loop taking the first GuessPaid event whatever its player
findGuessPaid_anyPayer(logs, player) ==
    LET hits == {i \in 1..Len(logs) : logs[i].eventName = "GuessPaid"}
    IN IF hits = {} THEN <<>>
       ELSE <<logs[CHOOSE i \in hits : \A j \in hits : i <= j].args>>

\* executeGuessPayment, lines 618-648: the first GuessPaid event whose player is the
\* submitting player, other events and other players' events being skipped; << >>
\* when the loop ends without one (line 650)
findGuessPaid(logs, player) ==
    LET hits == {i \in 1..Len(logs) :
                   /\ logs[i].eventName = "GuessPaid"
                   /\ toLowerCase(logs[i].args.player) = toLowerCase(player)}
    IN IF hits = {} THEN <<>>
       ELSE <<logs[CHOOSE i \in hits : \A j \in hits : i <= j].args>>

\* executeGuessPayment, lines 603-650: payForGuess is mined and its receipt searched
\* for the player's GuessPaid event, or it reverts
PayForGuessTx(c) ==
    /\ proc[c].pc = "pay_tx"
    /\ LET a == proc[c].auth
           roundId == proc[c].payRoundId
       IN IF payForGuessOk(roundId, a.payer, a.value, a.nonce)
          THEN /\ rounds' = payForGuessRounds(roundId)
               /\ nonces' = [nonces EXCEPT ![a.payer] = @ + 1]
               /\ balance' = balance + rounds[roundId].buyIn
               /\ LET found == findGuessPaid(relevantLogs(roundId, a.payer),
                                             proc[c].player)
                  IN proc' = [proc EXCEPT ![c] =
                                IF found = <<>>
                                THEN Finish(proc[c], "event_not_found")
                                ELSE [proc[c] EXCEPT
                                        !.pc = "pay_receipt",
                                        !.payment = found[1] @@ [buyInWei |-> 0]]]
          ELSE /\ proc' = [proc EXCEPT ![c] = Finish(proc[c], "payment_reverted")]
               /\ UNCHANGED <<rounds, nonces, balance>>
    /\ UNCHANGED <<state, processedPayments, currentRoundId, tee, transfers, histVars,
                   submits>>

stepIncrease_roundsUp(buyInWei) == (buyInWei * PRICE_INCREASE_BPS + 9999) \div 10000

\* submitGuess, line 529: BigInt division truncates
stepIncrease(buyInWei) == (buyInWei * PRICE_INCREASE_BPS) \div 10000

shouldEscalate_uncapped(s, matches, isWinner) ==
    ~isWinner /\ matches >= s.nearMatchThreshold

shouldEscalate_onWinner(s, matches, isWinner) ==
    matches >= s.nearMatchThreshold /\ s.priceSteps < MAX_PRICE_STEPS

\* submitGuess, lines 522 and 528: the else-if branch that escalates the buy-in
shouldEscalate(s, matches, isWinner) ==
    ~isWinner /\ matches >= s.nearMatchThreshold /\ s.priceSteps < MAX_PRICE_STEPS

Scored_adoptsBeforeChecks(s, pr, payment) ==
    LET rejected(res) == [state |-> [s EXCEPT !.buyInWei = payment.buyInWei,
                                              !.potWei = payment.potAfter],
                          result |-> res, accepted |-> FALSE,
                          isWinner |-> FALSE, escalated |-> FALSE, payout |-> 0]
    IN IF s.winner # <<>> THEN rejected("settled")
       ELSE IF Len(pr.guess) # s.digits THEN rejected("wrong_length")
       ELSE
         LET s1 == [s EXCEPT !.buyInWei = payment.buyInWei, !.potWei = payment.potAfter]
             matches == computeMatches(s1.targetSecret, pr.guess)
             guessRecord == [player |-> pr.player,
                             guess |-> pr.guess,
                             stakeWei |-> payment.amount,
                             matches |-> matches,
                             distance |-> s1.digits - matches,
                             hint |-> <<matches, s1.digits>>,
                             priceStepAtGuess |-> s1.priceSteps]
             isWinner == matches = s1.digits
             escalate == shouldEscalate(s1, matches, isWinner)
             w == IF isWinner
                  THEN [s1 EXCEPT !.winner = <<guessRecord @@ [payoutWei |-> s1.potWei]>>]
                  ELSE s1
             s2 == IF escalate
                   THEN [w EXCEPT !.buyInWei = @ + stepIncrease(@), !.priceSteps = @ + 1]
                   ELSE w
         IN [state |-> [s2 EXCEPT !.guesses = <<guessRecord>> \o @],
             result |-> "ok", accepted |-> TRUE, isWinner |-> isWinner,
             escalated |-> escalate, payout |-> IF isWinner THEN s1.potWei ELSE 0]

\* submitGuess, lines 491-536, on round s: the outcome of the synchronous block
Scored(s, pr, payment) ==
    LET rejected(res) == [state |-> s, result |-> res, accepted |-> FALSE,
                          isWinner |-> FALSE, escalated |-> FALSE, payout |-> 0]
    IN IF s.winner # <<>> THEN rejected("settled")
       ELSE IF Len(pr.guess) # s.digits THEN rejected("wrong_length")
       ELSE
         LET s1 == [s EXCEPT !.buyInWei = payment.buyInWei, !.potWei = payment.potAfter]
             matches == computeMatches(s1.targetSecret, pr.guess)
             guessRecord == [player |-> pr.player,
                             guess |-> pr.guess,
                             stakeWei |-> payment.amount,
                             matches |-> matches,
                             distance |-> s1.digits - matches,
                             hint |-> <<matches, s1.digits>>,
                             priceStepAtGuess |-> s1.priceSteps]
             isWinner == matches = s1.digits
             escalate == shouldEscalate(s1, matches, isWinner)
             w == IF isWinner
                  THEN [s1 EXCEPT !.winner = <<guessRecord @@ [payoutWei |-> s1.potWei]>>]
                  ELSE s1
             s2 == IF escalate
                   THEN [w EXCEPT !.buyInWei = @ + stepIncrease(@), !.priceSteps = @ + 1]
                   ELSE w
         IN [state |-> [s2 EXCEPT !.guesses = <<guessRecord>> \o @],
             result |-> "ok", accepted |-> TRUE, isWinner |-> isWinner,
             escalated |-> escalate, payout |-> IF isWinner THEN s1.potWei ELSE 0]

ScoreGuess_marksRejected(c, s, pp, payment) ==
    LET pr == proc[c]
        out == Scored(s, pr, payment)
        r == payment.roundId
    IN /\ state' = out.state
       /\ processedPayments' = pp \cup {<<toLowerCase(pr.auth.payer), pr.auth.nonce>>}
       /\ winsByRound' = IF out.isWinner THEN [winsByRound EXCEPT ![r] = @ + 1]
                         ELSE winsByRound
       /\ escalationsByRound' = IF out.escalated
                                THEN [escalationsByRound EXCEPT ![r] = @ + 1]
                                ELSE escalationsByRound
       /\ acceptedByRound' = IF out.accepted
                             THEN [acceptedByRound EXCEPT ![r] = @ + 1]
                             ELSE acceptedByRound
       /\ lastTx' = lastTx
       /\ adminTxs' = adminTxs
       /\ IF out.isWinner
          THEN \E target \in SecretPool :
                 proc' = [proc EXCEPT ![c].pc = "settle_tx",
                                      ![c].payment = payment,
                                      ![c].payout = out.payout,
                                      ![c].nextState =
                                         createRound([roundId |-> r + 1], target, UUID)]
          ELSE proc' = [proc EXCEPT ![c] = Finish(pr, out.result)]

\* the rest of submitGuess after the payment is known, started from round s with the
\* processed-payment set pp: records the guess and, for a winner, seals the next round
\* (settleAndOpenNextRound, lines 443-447)
ScoreGuess(c, s, pp, payment) ==
    LET pr == proc[c]
        out == Scored(s, pr, payment)
        r == payment.roundId
    IN /\ state' = out.state
       /\ processedPayments' = IF out.accepted
                               THEN pp \cup {<<toLowerCase(pr.auth.payer), pr.auth.nonce>>}
                               ELSE pp
       /\ winsByRound' = IF out.isWinner THEN [winsByRound EXCEPT ![r] = @ + 1]
                         ELSE winsByRound
       /\ escalationsByRound' = IF out.escalated
                                THEN [escalationsByRound EXCEPT ![r] = @ + 1]
                                ELSE escalationsByRound
       /\ acceptedByRound' = IF out.accepted
                             THEN [acceptedByRound EXCEPT ![r] = @ + 1]
                             ELSE acceptedByRound
       /\ lastTx' = lastTx
       /\ adminTxs' = adminTxs
       /\ IF out.isWinner
          THEN \E target \in SecretPool :
                 proc' = [proc EXCEPT ![c].pc = "settle_tx",
                                      ![c].payment = payment,
                                      ![c].payout = out.payout,
                                      ![c].nextState =
                                         createRound([roundId |-> r + 1], target, UUID)]
          ELSE proc' = [proc EXCEPT ![c] = Finish(pr, out.result)]

\* executeGuessPayment, lines 616-641, and submitGuess, lines 487-536: the receipt's
\* GuessPaid event is decoded, the round's buy-in is read, and the guess is processed
\* unless the paid round is not the local round
PayReceipt(c) ==
    /\ proc[c].pc = "pay_receipt"
    /\ LET payment == [proc[c].payment EXCEPT
                          !.buyInWei = rounds[proc[c].payment.roundId].buyIn]
       IN IF state.roundId # payment.roundId
          THEN /\ proc' = [proc EXCEPT ![c].pc = "reset_read", ![c].payment = payment]
               /\ UNCHANGED <<state, processedPayments, histVars>>
          ELSE ScoreGuess(c, state, processedPayments, payment)
    /\ UNCHANGED <<ledgerVars, submits>>

ResetRoundForChain_skipsRebuild(c) ==
    /\ proc[c].pc = "reset_read"
    /\ ScoreGuess(c, state, processedPayments, proc[c].payment)
    /\ UNCHANGED <<ledgerVars, submits>>

\* resetRoundForChain, lines 553-576, then submitGuess, lines 491-536: the rounds(paid
\* round) read returns, the local round is rebuilt from it and the guess is processed
ResetRoundForChain(c) ==
    /\ proc[c].pc = "reset_read"
    /\ LET roundId == proc[c].payment.roundId IN
       \E s \in ResyncStates(roundId, rounds[roundId]) :
          ScoreGuess(c, s, {}, proc[c].payment)
    /\ UNCHANGED <<ledgerVars, submits>>

\* settleAndOpenNextRound, lines 449-454: settleAndStartNextRound is mined, reverts, or
\* is never confirmed (RPC failure)
SettleTx(c) ==
    /\ proc[c].pc = "settle_tx"
    /\ LET winner == proc[c].auth.payer
           nextState == proc[c].nextState
           commitment == digestToBytes32(getCommitmentDigest(nextState))
       IN \/ /\ settleAndStartNextRoundOk(winner, nextState.buyInWei, commitment)
             /\ currentRoundId < MaxRound
             /\ rounds' = settleAndStartNextRoundRounds(winner, nextState.buyInWei, commitment)
             /\ currentRoundId' = currentRoundId + 1
             /\ transfers' = transfers \cup {[roundId |-> currentRoundId, winner |-> winner,
                                              payout |-> rounds[currentRoundId].pot]}
             /\ balance' = balance - rounds[currentRoundId].pot
             /\ proc' = [proc EXCEPT ![c].pc = "settle_receipt", ![c].txOk = TRUE,
                                     ![c].transferred = rounds[currentRoundId].pot]
          \/ /\ proc' = [proc EXCEPT ![c].pc = "settle_receipt", ![c].txOk = FALSE]
             /\ UNCHANGED <<rounds, currentRoundId, transfers, balance>>
    /\ UNCHANGED <<state, processedPayments, nonces, tee, histVars, submits>>

SettleReceipt_advancesOnFailure(c) ==
    /\ proc[c].pc = "settle_receipt"
    /\ state' = proc[c].nextState
    /\ processedPayments' = {}
    /\ proc' = [proc EXCEPT ![c] = Finish(proc[c], IF proc[c].txOk THEN "won"
                                                    ELSE "settle_failed")]
    /\ UNCHANGED <<ledgerVars, histVars, submits>>

SettleReceipt_keepsHistory(c) ==
    /\ proc[c].pc = "settle_receipt"
    /\ IF proc[c].txOk
       THEN /\ state' = [proc[c].nextState EXCEPT !.guesses = state.guesses,
                                                  !.priceSteps = state.priceSteps]
            /\ processedPayments' = {}
            /\ proc' = [proc EXCEPT ![c] = Finish(proc[c], "won")]
       ELSE /\ proc' = [proc EXCEPT ![c] = Finish(proc[c], "settle_failed")]
            /\ UNCHANGED <<state, processedPayments>>
    /\ UNCHANGED <<ledgerVars, histVars, submits>>

\* settleAndOpenNextRound, lines 456-462, and submitGuess, lines 545-547
SettleReceipt(c) ==
    /\ proc[c].pc = "settle_receipt"
    /\ IF proc[c].txOk
       THEN /\ state' = proc[c].nextState
            /\ processedPayments' = {}
            /\ proc' = [proc EXCEPT ![c] = Finish(proc[c], "won")]
       ELSE /\ proc' = [proc EXCEPT ![c] = Finish(proc[c], "settle_failed")]
            /\ UNCHANGED <<state, processedPayments>>
    /\ UNCHANGED <<ledgerVars, histVars, submits>>

Next ==
    \/ \E c \in Calls : SubmitGuess(c)
    \/ \E p \in Procs : EnsureReadCurrentRoundId(p)
    \/ \E p \in Procs : EnsureReadRound(p)
    \/ \E p \in Procs : EnsureClear(p)
    \/ \E p \in Procs : StartRoundTx(p)
    \/ \E p \in Procs : StartRoundReceipt(p)
    \/ \E c \in Calls : PayReadCurrentRoundId(c)
    \/ \E c \in Calls : PayForGuessTx(c)
    \/ \E c \in Calls : PayReceipt(c)
    \/ \E c \in Calls : ResetRoundForChain(c)
    \/ \E c \in Calls : SettleTx(c)
    \/ \E c \in Calls : SettleReceipt(c)

Spec == Init /\ [][Next]_vars

TypeOK ==
    /\ currentRoundId \in RoundIds
    /\ state.priceSteps \in Nat
    /\ submits \in 0..MaxSubmits

\* ---------------------------------------------------------------------------------
\* Properties
\* ---------------------------------------------------------------------------------
EnsurePcs == {"ens_currentRoundId", "ens_rounds", "ens_clear", "ens_start_tx",
              "ens_start_receipt"}

\* the step in which call c runs the synchronous block of submitGuess (lines 491-536)
ScoringStep(c) ==
    /\ proc[c].pc \in {"pay_receipt", "reset_read"}
    /\ proc'[c].pc \in {"idle", "settle_tx"}

\* C1: for every ledger round, at most one submitGuess call records a winner (and
\* returns a payout) for that round.
C1_AtMostOneWinnerPerRound == \A r \in RoundIds : winsByRound[r] <= 1

\* C2: once the local round has a winner, the winner is neither cleared nor replaced
\* while the local round keeps its round id.
C2_WinnerImmutable ==
    [][(state.winner # <<>> /\ state'.roundId = state.roundId)
         => state'.winner = state.winner]_vars

\* C3: a submitGuess call that re-uses a (payer, nonce) authorization which the
\* processed-payment set holds when the call is made is rejected with the replay
\* error: it never gets past the replay check into the ledger payment.
C3_ReplayRejected ==
    \A c \in Calls : proc[c].replay => proc[c].pc \in EnsurePcs

\* C4: a submitGuess call made after the round's winner was recorded, and processed
\* while the local round still has that round id, fails with "Round already settled"
\* and appends no GuessRecord.
C4_SettledRoundRejects ==
    [][\A c \in Calls :
         (/\ ScoringStep(c)
          /\ proc[c].settledAt # NoRoundId
          /\ state.roundId = proc[c].settledAt
          /\ state'.roundId = proc[c].settledAt)
         => (/\ proc'[c].result = "settled"
             /\ state'.guesses = state.guesses)]_vars

\* C5: the payout recorded for a winning guess equals the amount the ledger transfers
\* when that call's settlement transaction is mined.
C5_PayoutEqualsTransfer ==
    \A c \in Calls :
        (proc[c].pc = "settle_receipt" /\ proc[c].txOk)
        => proc[c].transferred = proc[c].payout

\* C6: the local round's commitment digest is the hash of its round id and of the
\* secret guesses are scored against.
C6_CommitmentBinding ==
    /\ getCommitmentDigest(state) = sealTarget(state.roundId, state.targetSecret)
    /\ state.targetDigest = sealTarget(state.roundId, state.targetSecret)

\* C7: when the local round id is a round id of the ledger, the local commitment digest
\* is the commitment the ledger stores for that round.
C7_DigestMatchesLedger ==
    (state.roundId \in 1..currentRoundId)
    => digestToBytes32(getCommitmentDigest(state)) = rounds[state.roundId].targetCommitment

\* C8: when the settlement of a winning guess is confirmed, the local round becomes
\* the next round: id = settled id + 1, no guesses, priceSteps 0, pot 0, no winner, a
\* drawn secret and the digest sealed over the new id and the new secret.
C8_RolloverFresh ==
    [][\A c \in Calls :
         (proc[c].pc = "settle_receipt" /\ proc[c].txOk /\ proc'[c].pc = "idle")
         => (/\ state'.roundId = proc[c].payment.roundId + 1
             /\ state'.guesses = <<>>
             /\ state'.priceSteps = 0
             /\ state'.potWei = 0
             /\ state'.winner = <<>>
             /\ state'.targetSecret \in SecretPool
             /\ getCommitmentDigest(state') = sealTarget(state'.roundId, state'.targetSecret)
             /\ state'.targetDigest = sealTarget(state'.roundId, state'.targetSecret))]_vars

C8_Witness ==
    \E c \in Calls :
        /\ proc[c].pc = "idle" /\ proc[c].result = "won"
        /\ transfers # {}
        /\ state.roundId >= 2 /\ state.guesses = <<>> /\ state.winner = <<>>

\* the ledger buy-in call c's payment reports (line 640) and line 499 adopts
PaidBuyIn(c) ==
    IF proc[c].pc = "pay_receipt" THEN rounds[proc[c].payment.roundId].buyIn
    ELSE proc[c].payment.buyInWei

C10_EscalationsCapped ==
    \A r \in RoundIds : escalationsByRound[r] <= MAX_PRICE_STEPS

\* C11: in every reachable state the local round has 0 <= priceSteps <= maxPriceSteps.
C11_PriceStepsBounded ==
    /\ state.priceSteps >= 0
    /\ state.priceSteps <= MAX_PRICE_STEPS

\* a near match was scored with priceSteps already at the maximum and left it there
C11_Witness ==
    /\ state.guesses # <<>>
    /\ state.winner = <<>>
    /\ Head(state.guesses).matches >= NEAR_MATCH_THRESHOLD
    /\ Head(state.guesses).priceStepAtGuess = MAX_PRICE_STEPS
    /\ state.priceSteps = MAX_PRICE_STEPS

\* C12: the step that records a winning guess (matches = digits) leaves priceSteps as
\* it was and leaves the buy-in at the buy-in in force for the guess: no price step is
\* added, although matches >= nearMatchThreshold and priceSteps < maxPriceSteps.
C12_WinnerNeverEscalates ==
    [][\A c \in Calls :
         (ScoringStep(c) /\ proc'[c].pc = "settle_tx")
         => LET w == Head(state'.winner) IN
            /\ w.matches = state'.digits
            /\ state'.priceSteps = w.priceStepAtGuess
            /\ proc[c].pc = "pay_receipt" => state'.priceSteps = state.priceSteps
            /\ state'.buyInWei = PaidBuyIn(c)]_vars

\* a winner was just recorded while the escalation guard would otherwise have held
C12_Witness ==
    /\ state.winner # <<>>
    /\ \E c \in Calls : proc[c].pc = "settle_tx" /\ proc[c].payment.roundId = state.roundId
    /\ Head(state.winner).matches >= NEAR_MATCH_THRESHOLD
    /\ Head(state.winner).priceStepAtGuess < MAX_PRICE_STEPS
    /\ state.priceSteps = Head(state.winner).priceStepAtGuess
    /\ state.buyInWei = Head(state.winner).stakeWei

\* C13: while the local round keeps its round id and has no winner, its pot does not
\* decrease from one state to the next.
C13_PotNeverDecreases ==
    [][(/\ state'.roundId = state.roundId
        /\ state.winner = <<>>
        /\ state'.winner = <<>>)
       => state'.potWei >= state.potWei]_vars

\* the results of submitGuess that are validation errors (lines 480, 492, 496)
ValidationErrors == {"not_numeric", "settled", "wrong_length"}

\* C14: a guess rejected with a validation error (not numeric, wrong length, round
\* already settled) is rejected synchronously: the rejecting step is the call's first
\* step, it leaves the local round and the ledger as they are, and the call has made no
\* ledger call before it.
C14_ValidationRejectsUntouched ==
    [][\A c \in Calls :
         (proc'[c].result \in ValidationErrors /\ proc'[c].result # proc[c].result)
         => (/\ proc[c].pc = "idle"
             /\ state' = state
             /\ ledgerVars' = ledgerVars)]_vars

\* C14, as the code has it: only the not-numeric rejection is synchronous (first step
\* of the call, local round and ledger untouched, no ledger call made).  A wrong-length
\* or already-settled rejection comes after the call's payment was mined; the rejecting
\* step itself makes no ledger call and, when it works on the round it found, leaves
\* that round as it is.
C14_OnlyNotNumericIsSynchronous ==
    [][\A c \in Calls :
         (proc'[c].result \in ValidationErrors /\ proc'[c].result # proc[c].result)
         => IF proc'[c].result = "not_numeric"
            THEN /\ proc[c].pc = "idle"
                 /\ state' = state
                 /\ ledgerVars' = ledgerVars
            ELSE /\ proc[c].pc \in {"pay_receipt", "reset_read"}
                 /\ proc[c].payment.guessCount >= 1
                 /\ ledgerVars' = ledgerVars
                 /\ proc[c].pc = "pay_receipt" => state' = state]_vars

\* one call was rejected as not numeric and another, after paying, as wrong length
C14_Witness ==
    \E c, d \in Calls :
        /\ proc[c].pc = "idle" /\ proc[c].result = "not_numeric"
        /\ proc[d].pc = "idle" /\ proc[d].result = "wrong_length"
        /\ rounds[currentRoundId].guesses >= 1

\* C15: a numeric guess of the wrong length sent with a valid authorization is paid for
\* on the ledger first (pot and guess count of the round go up) and rejected afterwards:
\* the rejecting step appends no GuessRecord, applies no escalation and does not add
\* the (payer, nonce) key to the processed-payment set.
C15_WrongLengthAfterPayment ==
    [][\A c \in Calls :
         /\ (/\ proc[c].pc = "pay_tx"
              /\ Len(proc[c].guess) # clampDigits(TARGET_DIGITS)
              /\ payForGuessOk(proc[c].payRoundId, proc[c].auth.payer,
                               proc[c].auth.value, proc[c].auth.nonce)
              /\ proc'[c].pc # "pay_tx")
             => LET r == proc[c].payRoundId IN
                /\ rounds'[r].pot = rounds[r].pot + rounds[r].buyIn
                /\ rounds'[r].guesses = rounds[r].guesses + 1
                /\ proc'[c].pc = "pay_receipt"
         /\ (ScoringStep(c) /\ Len(proc[c].guess) # clampDigits(TARGET_DIGITS))
             => /\ proc'[c].result \in {"wrong_length", "settled"}
                /\ proc[c].payment.guessCount >= 1
                /\ proc[c].payment.potAfter >= proc[c].payment.amount
                /\ proc[c].payment.amount > 0
                /\ \A i \in 1..Len(state'.guesses) :
                       Len(state'.guesses[i].guess) = clampDigits(TARGET_DIGITS)
                /\ proc[c].pc = "pay_receipt"
                   => /\ state'.guesses = state.guesses
                      /\ state'.priceSteps = state.priceSteps
                      /\ state'.buyInWei = state.buyInWei
                /\ escalationsByRound' = escalationsByRound
                /\ <<toLowerCase(proc[c].auth.payer), proc[c].auth.nonce>>
                      \notin processedPayments']_vars

\* a wrong-length guess was paid for and rejected, leaving no record and no key
C15_Witness ==
    \E c \in Calls :
        /\ proc[c].pc = "idle" /\ proc[c].result = "wrong_length"
        /\ nonces[c] = 1
        /\ rounds[currentRoundId].guesses = 1
        /\ rounds[currentRoundId].pot = rounds[currentRoundId].buyIn
        /\ state.guesses = <<>>
        /\ <<c, 0>> \notin processedPayments

\* the results of submitGuess that are authorization errors (lines 587, 590)
AuthorizationErrors == {"signer_mismatch", "missing_fields"}

\* C16: a call whose authorization payer is not the player (compared in lower case), or
\* whose authorization lacks nonce, deadline or value, is rejected in its first step,
\* before it has made any ledger read or write, and the ledger is left as it is.
C16_BadAuthRejectedBeforeLedger ==
    [][\A c \in Calls :
         (proc'[c].result \in AuthorizationErrors /\ proc'[c].result # proc[c].result)
         => (/\ proc[c].pc = "idle"
             /\ ledgerVars' = ledgerVars)]_vars

SettlementFailed(c, r) ==
    proc[c].pc = "idle" /\ proc[c].result = "settle_failed" /\ proc[c].payRoundId = r

\* C18: once the settlement of the winner that call c recorded for round r has failed
\* and ledger round r is still open, the coordinator's further operations settle round
\* r to that winner and to nobody else: no step pays the pot of round r to another
\* player.
C18_FailedSettlementGoesToWinner ==
    [][\A c \in Calls : \A r \in 1..MaxRound :
         (SettlementFailed(c, r) /\ rounds[r].winner = "0x0")
         => rounds'[r].winner \in {"0x0", c}]_vars

\* the submitGuess invocations that have started reconciliation and not yet returned
InSubmitGuess == {c \in Calls : proc[c].pc # "idle"}

\* C19: guess submissions are serialized: at no time are two submitGuess invocations
\* both between their reconciliation step and their final append or settlement step.
C19_Serialized == Cardinality(InSubmitGuess) <= 1

\* an accepted guess has been appended by call c in this step
Appended(c) ==
    /\ ScoringStep(c)
    /\ proc'[c].result = "ok" \/ proc'[c].pc = "settle_tx"

\* C20: while the local round id and the ledger's current round id stay the same, the
\* round's guess list keeps every GuessRecord it holds, unmodified, and changes only by
\* an accepted guess being put in front of it (newest first).
C20_GuessListKept ==
    [][(state'.roundId = state.roundId /\ currentRoundId' = currentRoundId)
       => \/ state'.guesses = state.guesses
          \/ /\ \E c \in Calls : Appended(c)
             /\ state'.guesses # <<>>
             /\ Tail(state'.guesses) = state.guesses]_vars


\* call c takes a step of the reconciliation of submitGuess (line 483) that has read
\* the ledger's current round, and that round is the local round and is active
ReconcilesSameRound(c) ==
    /\ proc[c].pc \in {"ens_rounds", "ens_clear"}
    /\ proc'[c].pc # proc[c].pc
    /\ proc[c].chainRoundId = state.roundId
    /\ currentRoundId = state.roundId
    /\ rounds[currentRoundId].active

\* C21: when the ledger's current round id equals the local round id and that round is
\* active, the reconciliation step of submitGuess leaves guesses, priceSteps, winner,
\* target secret and the processed-payment set unchanged.
C21_ReconcileKeepsSameRound ==
    [][\A c \in Calls :
         ReconcilesSameRound(c)
         => (/\ state'.guesses = state.guesses
             /\ state'.priceSteps = state.priceSteps
             /\ state'.winner = state.winner
             /\ state'.targetSecret = state.targetSecret
             /\ processedPayments' = processedPayments)]_vars


\* C22: when the round id of a confirmed payment differs from the local round id, the
\* guess is processed on a round rebuilt from the ledger record: the round id is the
\* paid one, buy-in and pot are the ledger's, and guess list, priceSteps, winner and
\* processed-payment set start empty, so that after the step they hold this guess at
\* most.
C22_ResetRebuildsFromLedger ==
    [][\A c \in Calls :
         (proc[c].pc = "reset_read" /\ proc'[c].pc # "reset_read")
         => LET r == proc[c].payment.roundId
                key == <<toLowerCase(proc[c].auth.payer), proc[c].auth.nonce>>
                accepted == proc'[c].result = "ok" \/ proc'[c].pc = "settle_tx"
            IN /\ state'.roundId = r
               /\ proc'[c].result # "settled"
               /\ IF accepted
                  THEN /\ Len(state'.guesses) = 1
                       /\ Head(state'.guesses).guess = proc[c].guess
                       /\ Head(state'.guesses).priceStepAtGuess = 0
                       /\ state'.priceSteps \in {0, 1}
                       /\ state'.winner = <<>> \/ proc'[c].pc = "settle_tx"
                       /\ state'.potWei = proc[c].payment.potAfter
                       /\ state'.buyInWei \in {proc[c].payment.buyInWei,
                                               proc[c].payment.buyInWei
                                                 + stepIncrease(proc[c].payment.buyInWei)}
                       /\ processedPayments' = {key}
                  ELSE /\ state'.guesses = <<>>
                       /\ state'.priceSteps = 0
                       /\ state'.winner = <<>>
                       /\ state'.buyInWei = rounds[r].buyIn
                       /\ state'.potWei = rounds[r].pot
                       /\ processedPayments' = {}]_vars

\* a payment for round 1 was confirmed when the local round was already round 2, and
\* the guess was recorded on the rebuilt round 1
C22_Witness ==
    /\ state.roundId = 1
    /\ currentRoundId >= 2
    /\ Len(state.guesses) = 1
    /\ \E c \in Calls : /\ Head(state.guesses).player = PlayerString(c)
                        /\ processedPayments = {<<c, nonces[c] - 1>>}
    /\ state.potWei > Head(state.guesses).stakeWei


\* ---------------------------------------------------------------------------------
\* getPublicState
\* ---------------------------------------------------------------------------------
\* bigint.toString(): the decimal rendering of an amount
toString(n) == <<"dec", n>>

\* TEN ** 18 in the source; the amounts of the model are scaled down to stay within
\* the integers of the model checker
WeiPerEth == 10^6

\* formatEth: whole ether and the fraction of an ether
formatEth(amountWei) ==
    LET absolute == IF amountWei < 0 THEN 0 - amountWei ELSE amountWei
    IN [negative |-> amountWei < 0,
        whole |-> absolute \div WeiPerEth,
        fraction |-> absolute % WeiPerEth]

\* a guess record as the snapshot carries it: amounts rendered as strings
sanitizedGuess(g) ==
    [k \in DOMAIN g \ {"stakeWei", "payoutWei"} |-> g[k]]
      @@ [stakeEth |-> formatEth(g.stakeWei), stakeWei |-> toString(g.stakeWei)]
      @@ (IF "payoutWei" \in DOMAIN g THEN [payoutWei |-> toString(g.payoutWei)]
          ELSE << >>)

\* getPublicState spreading the whole state into the snapshot instead of the rest
\* left after targetSecret is destructured out
getPublicState_spreadsState(s) ==
    [k \in DOMAIN s \ {"targetDigest", "buyInWei", "potWei", "winner", "guesses",
                       "targetCommitment"} |-> s[k]]
      @@ [guesses |-> [i \in 1..Len(s.guesses) |-> sanitizedGuess(s.guesses[i])],
          buyInWei |-> toString(s.buyInWei),
          potWei |-> toString(s.potWei),
          buyInEth |-> formatEth(s.buyInWei),
          potEth |-> formatEth(s.potWei),
          sealedTargetHash |-> s.targetDigest,
          targetCommitment |-> s.targetCommitment,
          winner |-> IF s.winner # <<>> THEN <<sanitizedGuess(s.winner[1])>> ELSE <<>>]

\* getPublicState (lines 653-681): the rest of the state once targetDigest,
\* targetSecret, buyInWei, potWei, winner, guesses and targetCommitment are taken out,
\* plus the rendered amounts, the sanitized guesses, the digest and the commitment
getPublicState(s) ==
    [k \in DOMAIN s \ {"targetDigest", "targetSecret", "buyInWei", "potWei", "winner",
                       "guesses", "targetCommitment"} |-> s[k]]
      @@ [guesses |-> [i \in 1..Len(s.guesses) |-> sanitizedGuess(s.guesses[i])],
          buyInWei |-> toString(s.buyInWei),
          potWei |-> toString(s.potWei),
          buyInEth |-> formatEth(s.buyInWei),
          potEth |-> formatEth(s.potWei),
          sealedTargetHash |-> s.targetDigest,
          targetCommitment |-> s.targetCommitment,
          winner |-> IF s.winner # <<>> THEN <<sanitizedGuess(s.winner[1])>> ELSE <<>>]

\* C23: the snapshot of getPublicState has no targetSecret field, two rounds that
\* differ only in the secret give the same snapshot, and while no winner is recorded
\* no guess of the snapshot spells the secret
C23_SnapshotHidesSecret ==
    LET snapshot == getPublicState(state)
    IN /\ "targetSecret" \notin DOMAIN snapshot
       /\ \A x \in SecretPool \cup GuessPool :
            getPublicState([state EXCEPT !.targetSecret = x]) = snapshot
       /\ state.winner = <<>>
            => \A i \in 1..Len(snapshot.guesses) :
                 snapshot.guesses[i].guess # state.targetSecret

C23_Witness ==
    /\ state.winner = <<>>
    /\ Len(getPublicState(state).guesses) = 1
    /\ getPublicState(state).guesses[1].matches = 3
    /\ getPublicState(state).potWei = toString(state.potWei)
    /\ state.targetSecret \in SecretPool


\* ---------------------------------------------------------------------------------
\* computeMatches
\* ---------------------------------------------------------------------------------
\* longest digit string of the exhaustive comparison
MatchLen == 3

DigitStrings == UNION {[1..n -> {1, 2}] : n \in 0..MatchLen}

\* the positions at which two strings of the same length carry the same digit
EqualPositions(target, guess) == {i \in 1..Len(target) : target[i] = guess[i]}

\* C24 on every pair of digit strings of equal length up to MatchLen, and on the
\* strings 1234 and 1243
computeMatches_CountsPositions ==
    /\ \A t \in DigitStrings : \A g \in DigitStrings :
         Len(t) = Len(g)
           => /\ computeMatches(t, g) = Cardinality(EqualPositions(t, g))
              /\ (t = g => computeMatches(t, g) = Len(t))
    /\ computeMatches(<<1, 2, 3, 4>>, <<1, 2, 4, 3>>) = 2

\* C24: matches is the number of positions at which target and guess carry the same
\* digit and distance is the digit count less matches; a guess equal to the target
\* has matches = digit count and distance 0; 1234 against 1243 gives 2 and 2
C24_MatchesAndDistance ==
    /\ computeMatches_CountsPositions
    /\ \A i \in 1..Len(state.guesses) :
         LET g == state.guesses[i]
         IN /\ Len(g.guess) = Len(state.targetSecret)
            /\ g.matches = Cardinality(EqualPositions(state.targetSecret, g.guess))
            /\ g.distance = state.digits - g.matches
            /\ g.guess = state.targetSecret => (g.matches = state.digits /\ g.distance = 0)

C24_Witness ==
    /\ state.targetSecret = <<1, 2, 4, 3>>
    /\ Len(state.guesses) = 2
    /\ state.guesses[1].guess = <<1, 2, 3, 4>>
    /\ state.guesses[1].matches = 2 /\ state.guesses[1].distance = 2
    /\ state.guesses[2].guess = <<1, 2, 3, 5>>

\* C25: for every ledger round, the guess records ever appended for it are at most
\* the guesses the ledger counted for it
C25_AcceptedWithinPaid ==
    \A r \in RoundIds : acceptedByRound[r] <= rounds[r].guesses

C25_Witness ==
    \E r \in RoundIds :
      /\ acceptedByRound[r] = 1
      /\ rounds[r].guesses = 2
      /\ \A c \in Calls : proc[c].pc = "idle"


\* ---------------------------------------------------------------------------------
\* executeGuessPayment: failed payments
\* ---------------------------------------------------------------------------------
\* the errors thrown at lines 612-614 and 650
ChainErrors == {"payment_reverted", "event_not_found"}

\* longest receipt of the exhaustive search
MaxLogs == 2

LogPool ==
    {[eventName |-> "GuessPaid",
      args |-> [roundId |-> 1, player |-> p, amount |-> BASE_BUY_IN_WEI,
                potAfter |-> BASE_BUY_IN_WEI, guessCount |-> 1]] :
       p \in {"alice", "bob", "Bob"}}
    \cup {[eventName |-> "RoundStarted", args |-> [roundId |-> 1]]}

Receipts == UNION {[1..n -> LogPool] : n \in 0..MaxLogs}

\* on every receipt up to MaxLogs: without a GuessPaid event of the player the search
\* ends empty-handed, and an event it returns is the player's
findGuessPaid_SkipsOtherPayers ==
    \A logs \in Receipts : \A player \in {PlayerString(c) : c \in Calls} :
      LET found == findGuessPaid(logs, player)
          own(i) == /\ logs[i].eventName = "GuessPaid"
                    /\ toLowerCase(logs[i].args.player) = toLowerCase(player)
      IN /\ (\A i \in 1..Len(logs) : ~own(i)) => found = <<>>
         /\ found # <<>> => toLowerCase(found[1].player) = toLowerCase(player)

\* C26: when payForGuess reverts, or its receipt has no GuessPaid event of the player,
\* submitGuess ends with a chain error: the round, its guess list and the processed
\* payments stay as they were and no further transaction is sent
C26_FailedPaymentLeavesNoTrace ==
    [][\A c \in Calls :
         (proc[c].pc = "pay_tx" /\ proc'[c].pc # "pay_tx")
         => LET a == proc[c].auth
                reverted == ~payForGuessOk(proc[c].payRoundId, a.payer, a.value, a.nonce)
            IN /\ findGuessPaid_SkipsOtherPayers
               /\ reverted => proc'[c].result = "payment_reverted"
               /\ proc'[c].result \in ChainErrors
                    => /\ proc'[c].pc = "idle"
                       /\ state' = state
                       /\ processedPayments' = processedPayments
                       /\ acceptedByRound' = acceptedByRound
               /\ proc'[c].result = "payment_reverted"
                    => UNCHANGED ledgerVars]_vars

C26_Witness ==
    \E c \in Calls :
      /\ proc[c].result = "payment_reverted"
      /\ Len(state.guesses) = 1
      /\ Head(state.guesses).player # PlayerString(c)
      /\ processedPayments # {}
      /\ \A k \in processedPayments : k[1] # c


\* ---------------------------------------------------------------------------------
\* ensureRoundIsReady: opening a round
\* ---------------------------------------------------------------------------------
\* C27: with no ledger round, or an inactive current one, reconciliation seals a round
\* numbered ledger current id + 1, sends startNextRound with its buy-in and digest, and
\* installs it as the local round only once that transaction succeeded, leaving the
\* local round alone when it failed
C27_OpensNextRoundAfterConfirmation ==
    [][\A p \in Procs :
         /\ (proc[p].pc \in {"ens_currentRoundId", "ens_rounds"}
               /\ proc'[p].pc = "ens_start_tx")
            => LET chainRoundId == IF proc[p].pc = "ens_rounds" THEN proc[p].chainRoundId
                                   ELSE currentRoundId
               IN /\ chainRoundId = 0 \/ ~rounds[chainRoundId].active
                  /\ proc'[p].nextState.roundId = chainRoundId + 1
                  /\ proc'[p].nextState.targetDigest
                       = sealTarget(chainRoundId + 1, proc'[p].nextState.targetSecret)
                  /\ state' = state
         /\ (proc[p].pc = "ens_start_tx" /\ proc'[p].pc # "ens_start_tx")
            => /\ state' = state
               /\ proc'[p].txOk
                    => /\ currentRoundId' = proc[p].nextState.roundId
                       /\ rounds'[currentRoundId'].buyIn = proc[p].nextState.buyInWei
                       /\ rounds'[currentRoundId'].targetCommitment
                            = digestToBytes32(proc[p].nextState.targetDigest)
         /\ (proc[p].pc = "ens_start_receipt" /\ proc'[p].pc # "ens_start_receipt")
            => IF proc[p].txOk
               THEN state' = proc[p].nextState /\ processedPayments' = {}
               ELSE state' = state /\ processedPayments' = processedPayments]_vars


C27_Witness ==
    \E p \in Procs : \E q \in Procs :
      /\ proc[p].pc = "ens_start_receipt" /\ proc[p].txOk
      /\ state.roundId # proc[p].nextState.roundId
      /\ currentRoundId = proc[p].nextState.roundId
      /\ proc[q].pc = "ens_start_receipt" /\ ~proc[q].txOk


\* ---------------------------------------------------------------------------------
\* submitGuess: errors of reconciliation
\* ---------------------------------------------------------------------------------
\* the startNextRound transaction of a call's reconciliation has failed (line 435)
ReconcileFailed(c) == proc[c].pc = "ens_start_receipt" /\ ~proc[c].txOk

\* C28: an error raised while submitGuess reconciles with the ledger is returned to the
\* caller: the call ends with it and does not go on to the payment
C28_ReconcileErrorReturned ==
    [][\A c \in Calls :
         (ReconcileFailed(c) /\ proc'[c].pc # "ens_start_receipt")
         => /\ proc'[c].pc = "idle"
            /\ proc'[c].result \notin {"ok"} \cup AuthorizationErrors]_vars


\* ---------------------------------------------------------------------------------
\* Ledger: payForGuess and settlement
\* ---------------------------------------------------------------------------------

\* Ownable.owner: the deployer
OWNER == "owner"

\* msg.sender of a transaction: the coordinator, the owner or somebody else
Senders == {TEE, OWNER, "alice"}

\* the account whose permits are presented in a ledger-only run
Payers == {"alice"}

\* the winner argument of a settlement: an account or address(0)
Winners == {"alice", "0x0"}

\* the buyInWei argument of startNextRound: a price or 0
NextBuyIns == {BASE_BUY_IN_WEI, 0}

\* paid guesses per round in a ledger-only run
MaxPaid == 2

\* administrative transactions mined in a ledger-only run
MaxAdminTxs == 2

\* the administrative entry points of the contract
AdminFns == {"updateBuyIn", "closeActiveRound", "withdrawIdle", "updateTee"}

\* highest round id opened in a ledger-only run
MaxLedgerRound == 2

\* what a ledger-only run leaves alone
coordinatorVars == <<state, processedPayments, proc, submits, winsByRound,
                     escalationsByRound, acceptedByRound>>

\* a reverted transaction changes nothing and emits nothing; only that one was sent
\* is kept of it
Reverted(fn, sender, args) ==
    /\ lastTx' = [fn |-> "reverted", sender |-> "", args |-> <<>>, ok |-> FALSE,
                  events |-> <<>>]
    /\ UNCHANGED <<ledgerVars, adminTxs>>

Mined(fn, sender, args, events) ==
    /\ lastTx' = [fn |-> fn, sender |-> sender, args |-> args, ok |-> TRUE,
                  events |-> events]
    /\ adminTxs' = IF fn \in AdminFns THEN adminTxs + 1 ELSE adminTxs

onlyTee_anyCaller(sender) == TRUE

\* modifier onlyTee: msg.sender is the tee address
onlyTee(sender) == sender = tee

\* modifier onlyOwner: msg.sender is the owner
onlyOwner(sender) == sender = OWNER

\* payForGuess(roundId, payer, value, deadline, v, r, s) sent by any account
TxPayForGuess ==
    /\ \E sender \in {TEE, "alice"}, roundId \in {currentRoundId, Max(currentRoundId - 1, 0)},
          payer \in Payers, value \in InitialBuyInPool :
         \E nonce \in {n \in 0..nonces[payer] : n >= nonces[payer] - 1} :
           LET args == [roundId |-> roundId, payer |-> payer, value |-> value,
                        nonce |-> nonce]
           IN IF payForGuessOk(roundId, payer, value, nonce)
              THEN /\ rounds[roundId].guesses < MaxPaid
                   /\ rounds' = payForGuessRounds(roundId)
                   /\ nonces' = [nonces EXCEPT ![payer] = @ + 1]
                   /\ balance' = balance + rounds[roundId].buyIn
                   /\ Mined("payForGuess", sender, args, <<GuessPaid(roundId, payer)>>)
                   /\ UNCHANGED <<currentRoundId, tee, transfers>>
              ELSE Reverted("payForGuess", sender, args)
    /\ UNCHANGED coordinatorVars

\* settleWinner(winner) sent by any account
TxSettleWinner ==
    /\ \E sender \in Senders, winner \in Winners :
         LET args == [winner |-> winner]
             payout == rounds[currentRoundId].pot
         IN IF onlyTee(sender) /\ settleWinnerOk(winner)
            THEN /\ rounds' = settleWinnerRounds(rounds, winner)
                 /\ transfers' = transfers \cup {[roundId |-> currentRoundId,
                                                  winner |-> winner, payout |-> payout]}
                 /\ Mined("settleWinner", sender, args,
                          <<[roundId |-> currentRoundId, winner |-> winner,
                             payout |-> payout]>>)
                 /\ balance' = balance - payout
                 /\ UNCHANGED <<currentRoundId, nonces, tee>>
            ELSE Reverted("settleWinner", sender, args)
    /\ UNCHANGED coordinatorVars

\* startNextRound(buyInWei, targetCommitment) sent by any account
TxStartNextRound ==
    /\ \E sender \in Senders, buyInWei \in NextBuyIns,
          targetCommitment \in {ZeroCommitment, ForeignCommitment} :
         LET args == [buyInWei |-> buyInWei, targetCommitment |-> targetCommitment]
         IN IF onlyTee(sender) /\ startNextRoundOk(rounds, buyInWei, targetCommitment)
            THEN /\ currentRoundId < MaxLedgerRound
                 /\ rounds' = startNextRoundRounds(rounds, buyInWei, targetCommitment)
                 /\ currentRoundId' = currentRoundId + 1
                 /\ Mined("startNextRound", sender, args, <<>>)
                 /\ UNCHANGED <<nonces, tee, balance, transfers>>
            ELSE Reverted("startNextRound", sender, args)
    /\ UNCHANGED coordinatorVars

\* settleAndStartNextRound(winner, buyInWei, targetCommitment) sent by any account
TxSettleAndStartNextRound ==
    /\ \E sender \in Senders, winner \in Winners,
          buyInWei \in NextBuyIns,
          targetCommitment \in {ZeroCommitment, ForeignCommitment} :
         LET args == [winner |-> winner, buyInWei |-> buyInWei,
                      targetCommitment |-> targetCommitment]
             payout == rounds[currentRoundId].pot
         IN IF onlyTee(sender) /\ settleAndStartNextRoundOk(winner, buyInWei, targetCommitment)
            THEN /\ currentRoundId < MaxLedgerRound
                 /\ rounds' = settleAndStartNextRoundRounds(winner, buyInWei,
                                                            targetCommitment)
                 /\ currentRoundId' = currentRoundId + 1
                 /\ transfers' = transfers \cup {[roundId |-> currentRoundId,
                                                  winner |-> winner, payout |-> payout]}
                 /\ Mined("settleAndStartNextRound", sender, args,
                          <<[roundId |-> currentRoundId, winner |-> winner,
                             payout |-> payout]>>)
                 /\ balance' = balance - payout
                 /\ UNCHANGED <<nonces, tee>>
            ELSE Reverted("settleAndStartNextRound", sender, args)
    /\ UNCHANGED coordinatorVars

\* the newBuyInWei argument of updateBuyIn: a price or 0
NewBuyIns == {1000000, 0}

\* updateBuyIn(newBuyInWei): the requires of lines 443-446
updateBuyInOk(newBuyInWei) == newBuyInWei > 0 /\ rounds[currentRoundId].active

\* updateBuyIn(newBuyInWei) sent by any account
TxUpdateBuyIn ==
    /\ \E sender \in Senders, newBuyInWei \in NewBuyIns :
         LET args == [newBuyInWei |-> newBuyInWei]
         IN IF onlyTee(sender) /\ updateBuyInOk(newBuyInWei)
            THEN /\ adminTxs < MaxAdminTxs
                 /\ rounds' = [rounds EXCEPT ![currentRoundId].buyIn = newBuyInWei]
                 /\ Mined("updateBuyIn", sender, args,
                          <<[roundId |-> currentRoundId, newBuyIn |-> newBuyInWei]>>)
                 /\ UNCHANGED <<currentRoundId, nonces, tee, balance, transfers>>
            ELSE Reverted("updateBuyIn", sender, args)
    /\ UNCHANGED coordinatorVars

\* closeActiveRound(): the require of line 497
closeActiveRoundOk == rounds[currentRoundId].active

\* closeActiveRound() sent by any account
TxCloseActiveRound ==
    /\ \E sender \in Senders :
         IF onlyTee(sender) /\ closeActiveRoundOk
         THEN /\ adminTxs < MaxAdminTxs
              /\ rounds' = [rounds EXCEPT ![currentRoundId].active = FALSE]
              /\ Mined("closeActiveRound", sender, <<>>, <<>>)
              /\ UNCHANGED <<currentRoundId, nonces, tee, balance, transfers>>
         ELSE Reverted("closeActiveRound", sender, <<>>)
    /\ UNCHANGED coordinatorVars

\* withdrawIdle(to, amount): the requires of lines 506-511
withdrawIdleOk(to, amount) ==
    /\ to # "0x0"
    /\ amount > 0
    /\ ~rounds[currentRoundId].active
    /\ amount <= rounds[currentRoundId].pot

\* the amounts asked of withdrawIdle: nothing, one unit, the pot of the current round
\* and one unit more
WithdrawAmounts ==
    {0, 1, rounds[currentRoundId].pot, rounds[currentRoundId].pot + 1}

\* withdrawIdle(to, amount) sent by any account
TxWithdrawIdle ==
    /\ \E sender \in Senders, to \in Winners, amount \in WithdrawAmounts :
         LET args == [to |-> to, amount |-> amount]
         IN IF onlyTee(sender) /\ withdrawIdleOk(to, amount)
            THEN /\ adminTxs < MaxAdminTxs
                 /\ rounds' = [rounds EXCEPT ![currentRoundId].pot = @ - amount]
                 /\ balance' = balance - amount
                 /\ Mined("withdrawIdle", sender, args, <<>>)
                 /\ UNCHANGED <<currentRoundId, nonces, tee, transfers>>
            ELSE Reverted("withdrawIdle", sender, args)
    /\ UNCHANGED coordinatorVars

\* the newTee argument of updateTee: an account or address(0)
NewTees == {TEE, "alice", "0x0"}

\* updateTee(newTee) sent by any account
TxUpdateTee ==
    /\ \E sender \in Senders, newTee \in NewTees :
         LET args == [newTee |-> newTee]
         IN IF onlyOwner(sender) /\ newTee # "0x0"
            THEN /\ adminTxs < MaxAdminTxs
                 /\ tee' = newTee
                 /\ Mined("updateTee", sender, args,
                          <<[previousTee |-> tee, newTee |-> newTee]>>)
                 /\ UNCHANGED <<currentRoundId, rounds, nonces, balance, transfers>>
            ELSE Reverted("updateTee", sender, args)
    /\ UNCHANGED coordinatorVars

LedgerNext ==
    \/ TxPayForGuess
    \/ TxSettleWinner
    \/ TxStartNextRound
    \/ TxSettleAndStartNextRound
    \/ TxUpdateBuyIn
    \/ TxCloseActiveRound
    \/ TxWithdrawIdle
    \/ TxUpdateTee

\* a deployment by the constructor under src/ with the base buy-in; the coordinator is
\* left out of a ledger-only run
LedgerInit ==
    /\ Init
    /\ state.targetSecret = <<1, 2, 3, 4>>
    /\ currentRoundId = 1
    /\ rounds[1].buyIn = BASE_BUY_IN_WEI

\* the ledger on its own, driven by transactions of any account
LedgerSpec == LedgerInit /\ [][LedgerNext]_vars

\* C29: payForGuess goes through only for the current round, while it is active and for
\* a value equal to its buy-in; it then adds the buy-in to the pot and one to the guess
\* count and emits both new values; otherwise it reverts and the ledger is unchanged
C29_PayForGuess ==
    [][/\ lastTx'.fn = "payForGuess"
          => LET r == lastTx'.args.roundId
             IN /\ r = currentRoundId
                /\ rounds[r].active
                /\ lastTx'.args.value = rounds[r].buyIn
                /\ rounds' = [rounds EXCEPT ![r].pot = @ + rounds[r].buyIn,
                                            ![r].guesses = @ + 1]
                /\ lastTx'.events
                     = <<[roundId |-> r, player |-> lastTx'.args.payer,
                          amount |-> rounds[r].buyIn,
                          potAfter |-> rounds'[r].pot,
                          guessCount |-> rounds'[r].guesses]>>
                /\ balance' = balance + rounds[r].buyIn
                /\ UNCHANGED <<currentRoundId, tee, transfers>>
       /\ lastTx'.fn = "reverted" => UNCHANGED ledgerVars /\ lastTx'.events = <<>>
       /\ \A r \in RoundIds :
            (rounds'[r].guesses # rounds[r].guesses \/ rounds'[r].pot > rounds[r].pot)
            => lastTx'.fn = "payForGuess"]_vars

C29_Witness ==
    /\ lastTx.fn = "payForGuess" /\ lastTx.ok
    /\ rounds[currentRoundId].guesses = 2
    /\ rounds[currentRoundId].pot = 2 * rounds[currentRoundId].buyIn
    /\ lastTx.events[1].potAfter = rounds[currentRoundId].pot
    /\ balance = rounds[1].pot + rounds[2].pot
    /\ rounds[1].guesses = 1
    /\ currentRoundId = 2


\* C30: a settlement (settleWinner, or the settling part of settleAndStartNextRound)
\* goes through only with an active current round and a winner other than address(0);
\* in one transaction it pays the whole pot to the winner, sets the pot to 0, records
\* the winner and deactivates the round; no payForGuess changes that round afterwards
C30_Settlement ==
    [][/\ lastTx'.fn \in {"settleWinner", "settleAndStartNextRound"}
          => LET r == currentRoundId
                 winner == lastTx'.args.winner
             IN /\ rounds[r].active
                /\ winner # "0x0"
                /\ rounds'[r] = [rounds[r] EXCEPT !.pot = 0, !.active = FALSE,
                                                  !.winner = winner]
                /\ transfers' = transfers \cup {[roundId |-> r, winner |-> winner,
                                                 payout |-> rounds[r].pot]}
                /\ balance' = balance - rounds[r].pot
                /\ lastTx'.events = <<[roundId |-> r, winner |-> winner,
                                       payout |-> rounds[r].pot]>>
       /\ \A r \in RoundIds :
            rounds[r].winner # "0x0"
            => /\ rounds'[r] = rounds[r]
               /\ lastTx'.fn = "payForGuess" => lastTx'.args.roundId # r
       /\ transfers' # transfers
            => lastTx'.fn \in {"settleWinner", "settleAndStartNextRound"}]_vars

C30_Witness ==
    /\ lastTx.fn = "reverted"
    /\ rounds[currentRoundId].winner = "alice"
    /\ ~rounds[currentRoundId].active
    /\ rounds[currentRoundId].pot = 0
    /\ balance = 0
    /\ \E x \in transfers : x.roundId = currentRoundId /\ x.payout = BASE_BUY_IN_WEI


\* C31: startNextRound goes through only while the current round is inactive and for a
\* commitment other than bytes32(0); the round it opens is numbered currentRoundId + 1
\* and has the given buy-in and commitment, pot 0, no guess, no winner, and is active
C31_StartNextRound ==
    [][/\ lastTx'.fn = "startNextRound"
          => /\ ~rounds[currentRoundId].active
             /\ lastTx'.args.targetCommitment # ZeroCommitment
             /\ currentRoundId' = currentRoundId + 1
             /\ rounds' = [rounds EXCEPT ![currentRoundId + 1] =
                             [buyIn |-> lastTx'.args.buyInWei, pot |-> 0, guesses |-> 0,
                              winner |-> "0x0", active |-> TRUE,
                              targetCommitment |-> lastTx'.args.targetCommitment]]
             /\ UNCHANGED <<nonces, tee, balance, transfers>>
       /\ currentRoundId' # currentRoundId
          => /\ lastTx'.fn \in {"startNextRound", "settleAndStartNextRound"}
             /\ currentRoundId' = currentRoundId + 1
             /\ rounds'[currentRoundId'].active
             /\ rounds'[currentRoundId'].pot = 0
             /\ rounds'[currentRoundId'].guesses = 0
             /\ rounds'[currentRoundId'].winner = "0x0"
             /\ rounds'[currentRoundId'].targetCommitment # ZeroCommitment]_vars

C31_Witness ==
    /\ lastTx.fn = "startNextRound"
    /\ currentRoundId = 2
    /\ rounds[2] = [buyIn |-> BASE_BUY_IN_WEI, pot |-> 0, guesses |-> 0, winner |-> "0x0",
                    active |-> TRUE, targetCommitment |-> ForeignCommitment]
    /\ ~rounds[1].active /\ rounds[1].pot = BASE_BUY_IN_WEI


\* C32: at most one ledger round is active, the one numbered currentRoundId, and a
\* round that was opened and is no longer active is never active again
C32_OneActiveRound ==
    [][/\ \A r \in RoundIds : rounds[r].active => r = currentRoundId
       /\ \A r \in RoundIds : rounds'[r].active => r = currentRoundId'
       /\ \A r \in 1..currentRoundId : ~rounds[r].active => ~rounds'[r].active]_vars

C32_Witness ==
    /\ currentRoundId = 2
    /\ ~rounds[1].active /\ rounds[1].winner = "0x0" /\ rounds[1].guesses = 1
    /\ rounds[2].active /\ rounds[2].guesses = 1
    /\ lastTx.fn = "payForGuess"


\* a round closed by closeActiveRound that still holds funds
ClosedWithFunds(r) ==
    /\ r \in 1..currentRoundId
    /\ ~rounds[r].active
    /\ rounds[r].winner = "0x0"
    /\ rounds[r].pot > 0

\* C33: while the current round is not active, withdrawIdle goes through for one unit
\* and for the whole remaining pot of every round closed without payout
C33_ClosedPotWithdrawable ==
    \A r \in RoundIds :
      (ClosedWithFunds(r) /\ ~rounds[currentRoundId].active)
      => /\ withdrawIdleOk("alice", 1)
         /\ withdrawIdleOk("alice", rounds[r].pot)


\* the functions behind onlyTee
TeeFns == {"updateBuyIn", "settleWinner", "startNextRound", "settleAndStartNextRound",
           "closeActiveRound", "withdrawIdle"}

RECURSIVE SumPots(_, _)
SumPots(rs, n) == IF n = 0 THEN rs[0].pot ELSE rs[n].pot + SumPots(rs, n - 1)

\* C40: the token balance of the contract is the sum of the pots of all rounds
C40_FundsConserved == balance = SumPots(rounds, MaxRound)

\* the closed round 1 keeps what was left of its pot after a withdrawal of one unit,
\* and round 2 has taken a payment
C40_Witness ==
    /\ lastTx.fn = "payForGuess"
    /\ currentRoundId = 2
    /\ rounds[1].guesses = 1
    /\ rounds[1].pot = rounds[1].buyIn - 1
    /\ rounds[2].pot > 0
    /\ balance = rounds[1].pot + rounds[2].pot


\* C35: while the local round keeps its id, its buy-in never goes down (the ledger has
\* no updateBuyIn transaction in this specification)
C35_BuyInNeverDecreases ==
    [][state'.roundId = state.roundId => state'.buyInWei >= state.buyInWei]_vars


\* C36: while the local round keeps the id of a ledger round that has an accepted guess
\* and is still open for payments, no step replaces the secret guesses are scored against
C36_OneSecretPerRound ==
    [][(/\ state.roundId \in 1..currentRoundId
        /\ state'.roundId = state.roundId
        /\ acceptedByRound[state.roundId] > 0
        /\ rounds[state.roundId].active)
       => state'.targetSecret = state.targetSecret]_vars


\* C37: a local round id that is a ledger round id never goes down
C37_RoundIdNeverDecreases ==
    [][(state.roundId \in 1..MaxRound) => state'.roundId >= state.roundId]_vars


\* C38: a settlement transaction sent for a win recorded in round N, when it is mined,
\* settles round N: the ledger's current round at that moment is N, and the payout it
\* records is round N's
C38_SettlesWinningRound ==
    [][\A c \in Calls :
         (proc[c].pc = "settle_tx" /\ proc'[c].pc = "settle_receipt" /\ proc'[c].txOk)
         => /\ currentRoundId = proc[c].payment.roundId
            /\ \E t \in transfers' \ transfers : t.roundId = proc[c].payment.roundId]_vars


\* C39: when settleAndOpenNextRound returns after a confirmed settlement, the local
\* round id is the ledger's currentRoundId
C39_LocalRoundIsLedgerRound ==
    [][\A c \in Calls :
         (proc[c].pc = "settle_receipt" /\ proc[c].txOk /\ proc'[c].result = "won")
         => state'.roundId = currentRoundId']_vars

====
